---- MODULE Spec2Model ----
(***************************************************************************)
(* Consensus sentiment-labeling pipeline of data-science-crawler:          *)
(*   - the shard worker with its checkpoint (src/labeling/labeler.py),     *)
(*   - the shard splitters (split_data.py, label_comments_orchestrator.py, *)
(*     recheck_labels.py),                                                 *)
(*   - the classification client and the consensus decision engine         *)
(*     (labeler.py parse_model_response .. process_batch),                 *)
(*   - the merge of the shard outputs (merge_labeled_comments.py,          *)
(*     recheck_labels.py merge_labeled_files),                             *)
(*   - the labeling of one part (label_comments.py process_csv) followed   *)
(*     by the merge filter,                                                *)
(*   - the worker orchestrators (labeling/run_parallel.py and main() of    *)
(*     label_comments_orchestrator.py and recheck_labels.py).              *)
(* Each component has its own specification over its own variables; the    *)
(* variables of the other components stay at their idle values.            *)
(***************************************************************************)
EXTENDS Integers, Sequences, FiniteSets, TLC

VARIABLES
    \* ---- shard worker: labeler.main over one shard input file ----
    shardLen,        \* len(data): number of records of the shard input
    pc,              \* position of the worker process in main()
    start_idx,       \* main(): start_idx = load_checkpoint(...)
    total_batches,   \* main(): total_batches
    batch_num,       \* main(): loop variable of the batch loop
    labeled,         \* rows of the in-memory `data` whose strategy is set
    saveIdx,         \* save_checkpoint(): argument last_idx of the running call
    ckptFile,        \* checkpoints/checkpoint_part_<k>.json on disk
    resultsFile,     \* checkpoints/checkpoint_part_<k>_results.csv on disk
    outputFile,      \* labeled_output/labeled_part_<k>.csv on disk
    processedEver,   \* history: rows for which some run computed a decision
    lastWritten,     \* history: index of the last complete checkpoint write
    killedAfterWrite,\* history: a run was killed after a checkpoint write
    input_file,      \* main(): the directory of the input_file argument
    ckptFor,         \* history: the input whose run created ckptFile
    resumedFor,      \* history: the input whose checkpoint gave start_idx
    \* ---- shard splitter: split_csv / split_data ----
    rows,            \* the data rows of the input CSV, in file order
    num_parts,       \* the requested number of parts (number of credentials)
    splitter,        \* which splitter runs: "split_csv" or "split_data"
    split_files,     \* the part files written, in part order
    spc,             \* position of the splitter: "ready" or "done"
    \* ---- classification client: call_model_batch ----
    c_n,             \* len(comments): number of records of the batch
    attempt,         \* call_model_batch(): loop variable attempt
    service_calls,   \* history: generate_content calls made for the batch
    c_response,      \* the response the service gave to the last call
    c_results,       \* the list call_model_batch returns
    cpc,             \* position of the client: "calling" or "returned"
    \* ---- consensus decision engine: process_batch ----
    b_n,             \* number of records of the batch (end_idx - start_idx)
    fast_results,    \* process_batch(): fast_results
    is_audit,        \* process_batch(): the audit draw of each record
    results,         \* process_batch(): results (None while a placeholder)
    need_pro_indices,\* process_batch(): need_pro_indices (positions from 1)
    pro_comments,    \* history: the records sent to the Pro tier, per call
    pro_results,     \* process_batch(): pro_results
    bpc,             \* position in process_batch: "fast", "pro", "returned"
    \* ---- merge of the shard outputs ----
    main_rows,       \* the rows of the main (original) CSV, in file order
    labeled_files,   \* the labeled CSV files, in sorted(path) order
    glob_order,      \* the order in which the files are enumerated
    merger,          \* "merge_labeled_comments" or "merge_labeled_files"
    final_rows,      \* the rows of the merged output CSV
    mpc,             \* position of the merge: "ready" or "done"
    \* ---- labeling of one part: label_comments.process_csv, then the merge ----
    l_texts,         \* per row of the part: its comment_text is "blank" or "text"
    l_offset,        \* process_csv(): loop variable offset
    l_response,      \* what the service did for the last batch
    l_sent,          \* history: the rows put into a prompt for the service
    l_output,        \* the rows written to the labeled CSV
    l_final,         \* the rows of the final dataset after the merge
    lpc,             \* position: "label", "labeled" or "done"
    \* ---- worker orchestrator: run_parallel, label_comments_orchestrator,
    \*      recheck_labels ----
    orchestrator,    \* which orchestrator runs
    total_rows,      \* number of data rows of the input CSV
    api_keys,        \* len(api_keys) (run_parallel: the part files found)
    n_split,         \* len(split_files) (run_parallel: len(processes))
    warned,          \* split_csv printed its "More parts than rows" warning
    processes,       \* state of the worker of each shard
    wait_idx,        \* run_parallel: position of the wait loop (from 1)
    successful_outputs, \* shards recorded as successful, in recording order
    failed_inputs,   \* shards recorded as failed, in recording order
    terminate_sent,  \* workers to which process.terminate() was sent
    interrupted,     \* a KeyboardInterrupt reached the orchestrator
    alive_at_interrupt, \* history: the workers alive at that moment
    merged_labels,   \* shards whose labels are in the final dataset
    opc              \* position of the orchestrator

workerVars == <<shardLen, pc, start_idx, total_batches, batch_num, labeled,
                saveIdx, ckptFile, resultsFile, outputFile, processedEver,
                lastWritten, killedAfterWrite, input_file, ckptFor, resumedFor>>

splitVars == <<rows, num_parts, splitter, split_files, spc>>

clientVars == <<c_n, attempt, service_calls, c_response, c_results, cpc>>

batchVars == <<b_n, fast_results, is_audit, results, need_pro_indices,
               pro_comments, pro_results, bpc>>

mergeVars == <<main_rows, labeled_files, glob_order, merger, final_rows, mpc>>

labelVars == <<l_texts, l_offset, l_response, l_sent, l_output, l_final, lpc>>

orchVars == <<orchestrator, total_rows, api_keys, n_split, warned, processes,
              wait_idx, successful_outputs, failed_inputs, terminate_sent,
              interrupted, alive_at_interrupt, merged_labels, opc>>

nonWorkerVars == <<splitVars, clientVars, batchVars, mergeVars, orchVars,
    labelVars>>
nonSplitVars == <<workerVars, clientVars, batchVars, mergeVars, orchVars,
    labelVars>>
nonClientVars == <<workerVars, splitVars, batchVars, mergeVars, orchVars,
    labelVars>>
nonBatchVars == <<workerVars, splitVars, clientVars, mergeVars, orchVars,
    labelVars>>
nonMergeVars == <<workerVars, splitVars, clientVars, batchVars, orchVars,
    labelVars>>
nonOrchVars == <<workerVars, splitVars, clientVars, batchVars, mergeVars,
    labelVars>>

nonLabelVars == <<workerVars, splitVars, clientVars, batchVars, mergeVars,
                  orchVars>>

vars == <<workerVars, splitVars, clientVars, batchVars, mergeVars, orchVars,
    labelVars>>

----------------------------------------------------------------------------
(* Program constants (src/labeling/config.py).                             *)
BATCH_SIZE == 5
CHECKPOINT_INTERVAL == 50
MAX_RETRIES == 3
WEIGHT_FAST == 1
WEIGHT_PRO == 2
(* The thresholds 0.985 and 0.2 as exact fractions <<numerator, denominator>>. *)
CONF_FAST_ACCEPT == <<985, 1000>>
MARGIN_THRESHOLD == <<1, 5>>

(* Bounds of the model.                                                    *)
MaxShardLen == 52
MaxPartLen == 6
MaxRows == 9
MaxParts == 7
MaxBatch == 2
MaxMain == 2
MaxFiles == 2
MaxLabeledRows == 2
MaxOrchRows == 3
MaxKeys == 3
MaxLabelRows == 3

Min(a, b) == IF a < b THEN a ELSE b
Max(a, b) == IF a > b THEN a ELSE b

----------------------------------------------------------------------------
(* Files.  A file is absent, partial (opened for writing, which truncates  *)
(* it, and not yet completely written and closed) or complete.             *)
(* No checkpoint index written yet; no input.                             *)
NoCheckpoint == -2
NoInput == "none"

(* The directories of the part files data_part_<k>.csv: run_parallel.py    *)
(* reads data_splits, run_parallel_test.py reads data_splits_test.         *)
FullInput == "data_splits"
TestInput == "data_splits_test"

AbsentFile == [kind |-> "absent", last_processed_idx |-> 0, rows |-> {}]
PartialFile == [kind |-> "partial", last_processed_idx |-> 0, rows |-> {}]
JsonFile(idx) == [kind |-> "json", last_processed_idx |-> idx, rows |-> {}]
CsvFile(rs) == [kind |-> "csv", last_processed_idx |-> 0, rows |-> rs]

(* Mutant of load_checkpoint: resumes one row too far.                     *)
load_checkpoint_skip(f) ==
    IF f.kind = "absent" THEN 0
    ELSE IF f.kind = "json" THEN f.last_processed_idx + 2
    ELSE 0

(* Mutant of load_checkpoint: without the try / except around json.load.   *)
load_checkpoint_no_except(f) ==
    IF f.kind = "absent" THEN 0
    ELSE f.last_processed_idx + 1

(* load_checkpoint: 0 when the file is missing or json.load raises,        *)
(* otherwise last_processed_idx + 1.                                       *)
load_checkpoint(f) ==
    IF f.kind = "absent" THEN 0
    ELSE IF f.kind = "json" THEN f.last_processed_idx + 1
    ELSE 0

(* main(): total_batches = (len(data) - start_idx + BATCH_SIZE - 1) // BATCH_SIZE *)
TotalBatches(len, start) == (len - start + BATCH_SIZE - 1) \div BATCH_SIZE

(* Mutant of current_idx: consecutive batches overlap by one row.          *)
current_idx_overlap == start_idx + batch_num * (BATCH_SIZE - 1)

(* main(): current_idx = start_idx + batch_num * BATCH_SIZE                *)
current_idx == start_idx + batch_num * BATCH_SIZE

(* process_batch(): end_idx = min(start_idx + BATCH_SIZE, len(comments_df)) *)
end_idx == Min(current_idx + BATCH_SIZE, shardLen)

(* main(): the periodic-checkpoint condition after a batch                 *)
CheckpointDue ==
    \/ (batch_num + 1) % (CHECKPOINT_INTERVAL \div BATCH_SIZE) = 0
    \/ batch_num = total_batches - 1

----------------------------------------------------------------------------
(* Shard worker.                                                           *)

WorkerInitOn(f, maxLen) ==
    /\ shardLen \in 0..maxLen
    /\ input_file = f
    /\ lastWritten = NoCheckpoint
    /\ killedAfterWrite = FALSE
    /\ ckptFor = NoInput
    /\ resumedFor = NoInput
    /\ pc = "idle"
    /\ start_idx = 0
    /\ total_batches = 0
    /\ batch_num = 0
    /\ labeled = {}
    /\ saveIdx = 0
    /\ ckptFile = AbsentFile
    /\ resultsFile = AbsentFile
    /\ outputFile = AbsentFile
    /\ processedEver = {}

WorkerInit == WorkerInitOn(FullInput, MaxShardLen)

(* main() from its first line to the head of the batch loop: read the      *)
(* input (no row has a strategy), load the checkpoint.  Runs when the      *)
(* worker is first launched and when it is restarted after a kill or a     *)
(* failed run.                                                             *)
StartRunOn(f, len) ==
    /\ pc \in {"idle", "killed", "failed"}
    /\ pc' = "loop"
    /\ input_file' = f
    /\ shardLen' = len
    /\ labeled' = {}
    /\ start_idx' = load_checkpoint(ckptFile)
    /\ total_batches' = TotalBatches(len, load_checkpoint(ckptFile))
    /\ batch_num' = 0
    /\ saveIdx' = 0
    /\ resumedFor' = IF ckptFile.kind = "json" THEN ckptFor ELSE NoInput
    /\ lastWritten' = IF ckptFile.kind = "json" THEN lastWritten ELSE NoCheckpoint
    /\ processedEver' = IF f = input_file THEN processedEver ELSE {}
    /\ UNCHANGED <<ckptFile, resultsFile, outputFile, killedAfterWrite, ckptFor>>
    /\ UNCHANGED nonWorkerVars

(* The worker is launched, or launched again, on the same input file.      *)
StartRun ==
    /\ input_file \in {FullInput, TestInput}
    /\ StartRunOn(input_file, shardLen)

(* run_parallel.py launches labeler.py for part k on data_splits while the *)
(* files of an earlier run of run_parallel_test.py for the same part       *)
(* number, over data_splits_test, are still on disk.                       *)
StartFullRunAfterTest ==
    /\ input_file = TestInput
    /\ \E len \in 0..MaxPartLen : StartRunOn(FullInput, len)

(* One iteration of the loop up to the checkpoint test: process_batch      *)
(* returns one decision per row of the batch and main() stores them.       *)
ProcessBatch ==
    /\ pc = "loop"
    /\ batch_num < total_batches
    /\ current_idx < shardLen
    /\ labeled' = labeled \cup (current_idx .. end_idx - 1)
    /\ processedEver' = processedEver \cup (current_idx .. end_idx - 1)
    /\ IF CheckpointDue
       THEN /\ pc' = "save"
            /\ saveIdx' = current_idx + (end_idx - current_idx) - 1
       ELSE /\ pc' = "loop"
            /\ saveIdx' = saveIdx
    /\ batch_num' = IF CheckpointDue THEN batch_num ELSE batch_num + 1
    /\ UNCHANGED <<shardLen, start_idx, total_batches, ckptFile, resultsFile,
                   outputFile>>
    /\ UNCHANGED <<lastWritten, killedAfterWrite, input_file, ckptFor, resumedFor>>
    /\ UNCHANGED nonWorkerVars

(* process_batch raises: the except branch of main() saves a checkpoint    *)
(* for current_idx - 1 and re-raises.                                      *)
BatchRaises ==
    /\ pc = "loop"
    /\ batch_num < total_batches
    /\ current_idx < shardLen
    /\ pc' = "exc_save"
    /\ saveIdx' = current_idx - 1
    /\ UNCHANGED <<shardLen, start_idx, total_batches, batch_num, labeled,
                   ckptFile, resultsFile, outputFile, processedEver>>
    /\ UNCHANGED <<lastWritten, killedAfterWrite, input_file, ckptFor, resumedFor>>
    /\ UNCHANGED nonWorkerVars

(* save_checkpoint: open(checkpoint_file, 'w') truncates the file.         *)
SaveOpen ==
    /\ pc \in {"save", "exc_save"}
    /\ ckptFile' = PartialFile
    /\ pc' = IF pc = "save" THEN "save_dump" ELSE "exc_save_dump"
    /\ UNCHANGED <<shardLen, start_idx, total_batches, batch_num, labeled,
                   saveIdx, resultsFile, outputFile, processedEver>>
    /\ ckptFor' = input_file
    /\ UNCHANGED <<lastWritten, killedAfterWrite, input_file, resumedFor>>
    /\ UNCHANGED nonWorkerVars

(* save_checkpoint: json.dump and the close of the with block.             *)
SaveDump ==
    /\ pc \in {"save_dump", "exc_save_dump"}
    /\ ckptFile' = JsonFile(saveIdx)
    /\ pc' = IF pc = "save_dump" THEN "save_results" ELSE "exc_save_results"
    /\ UNCHANGED <<shardLen, start_idx, total_batches, batch_num, labeled,
                   saveIdx, resultsFile, outputFile, processedEver>>
    /\ lastWritten' = saveIdx
    /\ UNCHANGED <<killedAfterWrite, input_file, ckptFor, resumedFor>>
    /\ UNCHANGED nonWorkerVars

(* save_checkpoint: results_df.to_csv(results_file) opens the file.        *)
SaveResultsOpen ==
    /\ pc \in {"save_results", "exc_save_results"}
    /\ resultsFile' = PartialFile
    /\ pc' = IF pc = "save_results" THEN "save_results_write"
                                     ELSE "exc_save_results_write"
    /\ UNCHANGED <<shardLen, start_idx, total_batches, batch_num, labeled,
                   saveIdx, ckptFile, outputFile, processedEver>>
    /\ UNCHANGED <<lastWritten, killedAfterWrite, input_file, ckptFor, resumedFor>>
    /\ UNCHANGED nonWorkerVars

(* save_checkpoint: results_df.to_csv(results_file) completes.  In the     *)
(* except branch main() then re-raises and the process exits non-zero.     *)
SaveResultsWrite ==
    /\ pc \in {"save_results_write", "exc_save_results_write"}
    /\ resultsFile' = CsvFile(labeled)
    /\ pc' = IF pc = "save_results_write" THEN "out" ELSE "failed"
    /\ UNCHANGED <<shardLen, start_idx, total_batches, batch_num, labeled,
                   saveIdx, ckptFile, outputFile, processedEver>>
    /\ UNCHANGED <<lastWritten, killedAfterWrite, input_file, ckptFor, resumedFor>>
    /\ UNCHANGED nonWorkerVars

(* main(): data.to_csv(output_file) opens the output file, after a         *)
(* checkpoint and after the loop.                                          *)
OutputOpen ==
    /\ pc \in {"out", "final"}
    /\ outputFile' = PartialFile
    /\ pc' = IF pc = "out" THEN "out_write" ELSE "final_write"
    /\ UNCHANGED <<shardLen, start_idx, total_batches, batch_num, labeled,
                   saveIdx, ckptFile, resultsFile, processedEver>>
    /\ UNCHANGED <<lastWritten, killedAfterWrite, input_file, ckptFor, resumedFor>>
    /\ UNCHANGED nonWorkerVars

(* main(): data.to_csv(output_file) completes.                             *)
OutputWrite ==
    /\ pc \in {"out_write", "final_write"}
    /\ outputFile' = CsvFile(labeled)
    /\ pc' = IF pc = "out_write" THEN "loop" ELSE "cleanup"
    /\ batch_num' = IF pc = "out_write" THEN batch_num + 1 ELSE batch_num
    /\ UNCHANGED <<shardLen, start_idx, total_batches, labeled, saveIdx,
                   ckptFile, resultsFile, processedEver>>
    /\ UNCHANGED <<lastWritten, killedAfterWrite, input_file, ckptFor, resumedFor>>
    /\ UNCHANGED nonWorkerVars

(* main(): the loop ends (range exhausted or current_idx >= len(data)).    *)
LoopExit ==
    /\ pc = "loop"
    /\ (batch_num >= total_batches \/ current_idx >= shardLen)
    /\ pc' = "final"
    /\ UNCHANGED <<shardLen, start_idx, total_batches, batch_num, labeled,
                   saveIdx, ckptFile, resultsFile, outputFile, processedEver>>
    /\ UNCHANGED <<lastWritten, killedAfterWrite, input_file, ckptFor, resumedFor>>
    /\ UNCHANGED nonWorkerVars

(* main(): os.remove(checkpoint_file) when it exists; the run is complete. *)
RemoveCheckpoint ==
    /\ pc = "cleanup"
    /\ ckptFile' = AbsentFile
    /\ pc' = "done"
    /\ UNCHANGED <<shardLen, start_idx, total_batches, batch_num, labeled,
                   saveIdx, resultsFile, outputFile, processedEver>>
    /\ ckptFor' = NoInput
    /\ UNCHANGED <<lastWritten, killedAfterWrite, input_file, resumedFor>>
    /\ UNCHANGED nonWorkerVars

(* The worker process is killed (SIGKILL, power loss, or KeyboardInterrupt *)
(* which `except Exception` does not catch): its memory is lost, the files *)
(* stay as they are.                                                       *)
Kill ==
    /\ pc \notin {"idle", "killed", "failed", "done"}
    /\ pc' = "killed"
    /\ labeled' = {}
    /\ start_idx' = 0
    /\ total_batches' = 0
    /\ batch_num' = 0
    /\ saveIdx' = 0
    /\ UNCHANGED <<shardLen, ckptFile, resultsFile, outputFile, processedEver>>
    /\ killedAfterWrite' = (killedAfterWrite \/ lastWritten # NoCheckpoint)
    /\ resumedFor' = NoInput
    /\ UNCHANGED <<lastWritten, input_file, ckptFor>>
    /\ UNCHANGED nonWorkerVars

WorkerNext ==
    \/ StartRun
    \/ ProcessBatch
    \/ BatchRaises
    \/ SaveOpen
    \/ SaveDump
    \/ SaveResultsOpen
    \/ SaveResultsWrite
    \/ OutputOpen
    \/ OutputWrite
    \/ LoopExit
    \/ RemoveCheckpoint
    \/ Kill

----------------------------------------------------------------------------
(* Shard splitter: split_csv (label_comments_orchestrator.py and, with the *)
(* same text, recheck_labels.py) and split_data (labeling/split_data.py).  *)

(* Mutant of Slice: the slice is taken with an inclusive end.              *)
SliceInclusive(s, a, b) == SubSeq(s, a + 1, Min(b + 1, Len(s)))

(* Python's rows[a:b] for 0 <= a <= b on a 1-based TLA+ sequence.          *)
Slice(s, a, b) == SubSeq(s, a + 1, Min(b, Len(s)))

(* Mutant of part_size: the last part takes the whole remainder.           *)
part_size_last(part_idx, parts, rows_per_part, remainder) ==
    rows_per_part + (IF part_idx = parts - 1 THEN remainder ELSE 0)

(* part_size = rows_per_part + (1 if part_idx < remainder else 0)          *)
part_size(part_idx, parts, rows_per_part, remainder) ==
    rows_per_part + (IF part_idx < remainder THEN 1 ELSE 0)

(* The for loop of split_csv from part_idx on: it stops at the first part  *)
(* of size 0.                                                              *)
RECURSIVE SplitCsvLoop(_, _, _, _, _)
SplitCsvLoop(rs, parts, part_idx, start, files) ==
    IF part_idx >= parts THEN files
    ELSE LET rows_per_part == Len(rs) \div parts
             remainder == Len(rs) % parts
             size == part_size(part_idx, parts, rows_per_part, remainder)
             e == start + size
         IN  IF size = 0 THEN files
             ELSE SplitCsvLoop(rs, parts, part_idx + 1, e,
                               Append(files, Slice(rs, start, e)))

(* split_csv after its exits for an empty file and for num_parts < 1:      *)
(* num_parts is clamped to the number of rows.                             *)
split_csv(rs, n) ==
    SplitCsvLoop(rs, IF n > Len(rs) THEN Len(rs) ELSE n, 0, 0, <<>>)

(* The for loop of split_data from i on: every part is written, empty or   *)
(* not.                                                                    *)
RECURSIVE SplitDataLoop(_, _, _, _, _)
SplitDataLoop(rs, num_splits, i, start, files) ==
    IF i >= num_splits THEN files
    ELSE LET rows_per_split == Len(rs) \div num_splits
             remainder == Len(rs) % num_splits
             e == start + part_size(i, num_splits, rows_per_split, remainder)
         IN  SplitDataLoop(rs, num_splits, i + 1, e,
                           Append(files, Slice(rs, start, e)))

split_data(rs, num_splits) == SplitDataLoop(rs, num_splits, 0, 0, <<>>)

(* The input dataset: T >= 1 rows with the unique record ids 1..T, and a   *)
(* requested number of parts N >= 1.                                       *)
SplitInit ==
    /\ \E T \in 1..MaxRows : rows = [i \in 1..T |-> i]
    /\ num_parts \in 1..MaxParts
    /\ splitter \in {"split_csv", "split_data"}
    /\ split_files = <<>>
    /\ spc = "ready"

SplitCsvRun ==
    /\ spc = "ready"
    /\ splitter = "split_csv"
    /\ split_files' = split_csv(rows, num_parts)
    /\ spc' = "done"
    /\ UNCHANGED <<rows, num_parts, splitter>>
    /\ UNCHANGED nonSplitVars

SplitDataRun ==
    /\ spc = "ready"
    /\ splitter = "split_data"
    /\ split_files' = split_data(rows, num_parts)
    /\ spc' = "done"
    /\ UNCHANGED <<rows, num_parts, splitter>>
    /\ UNCHANGED nonSplitVars

SplitNext ==
    \/ SplitCsvRun
    \/ SplitDataRun

----------------------------------------------------------------------------
(* Classification client: parse_model_response and call_model_batch        *)
(* (labeling/labeler.py).                                                  *)
(*                                                                         *)
(* Numbers.  The confidences the service sends are modelled as integers    *)
(* (the unit does not matter: they are only added, compared with 0 and     *)
(* divided by their sum).  A confidence after normalisation is the exact   *)
(* fraction num[label] / den with den > 0, the three confidences of one    *)
(* result sharing den.                                                     *)

LABELS == <<"positive", "neutral", "negative">>
LabelSet == {LABELS[i] : i \in 1..Len(LABELS)}

Conf(p, n, g) == [l \in LabelSet |->
                     IF l = "positive" THEN p ELSE IF l = "neutral" THEN n ELSE g]

(* A ClassificationResult {"label": ..., "confidence": {...}}.             *)
Result(label, num, den) == [label |-> label, num |-> num, den |-> den]

(* The error entry made for an item that is not a dict: confidence 0.0 for *)
(* every label.                                                            *)
ZeroError == Result("error", Conf(0, 0, 0), 1)

(* The error entry used for padding and for failed calls: 1/3 per label.   *)
ThirdError == Result("error", Conf(1, 1, 1), 3)

AllErrors(n) == [i \in 1..n |-> ThirdError]

(* The items of a response.  A dict item carries the label string it has   *)
(* under "label" ("" when the key is missing) and its raw confidences (0   *)
(* for a missing key).  A raising item is a dict whose label is not a      *)
(* string or whose confidence is not a mapping of numbers: .lower(),       *)
(* .get() or float() raise on it.                                          *)
DictItem(label, conf) ==
    [dict |-> TRUE, raises |-> FALSE, label |-> label, conf |-> conf]
NonDictItem ==
    [dict |-> FALSE, raises |-> FALSE, label |-> "", conf |-> Conf(0, 0, 0)]
RaisingItem ==
    [dict |-> TRUE, raises |-> TRUE, label |-> "", conf |-> Conf(0, 0, 0)]

(* str.lower() on the label strings of the model.                          *)
Lower(l) ==
    IF l = "NEGATIVE" THEN "negative"
    ELSE IF l = "Positive" THEN "positive"
    ELSE l

(* The label of a dict item: lower case, "irrelevant" read as "neutral",   *)
(* anything outside LABELS becomes "error".                                *)
NormalizeLabel(l) ==
    LET label == IF Lower(l) = "irrelevant" THEN "neutral" ELSE Lower(l)
    IN  IF label \in LabelSet THEN label ELSE "error"

(* The body of the for loop of parse_model_response for one item that does *)
(* not raise.                                                              *)
ParseItem(item) ==
    IF ~item.dict THEN ZeroError
    ELSE LET total == item.conf["positive"] + item.conf["neutral"]
                          + item.conf["negative"]
         IN  IF total > 0
             THEN Result(NormalizeLabel(item.label), item.conf, total)
             ELSE Result(NormalizeLabel(item.label), Conf(1, 1, 1), 3)

(* What the service does on one call: it raises ("exception"), answers     *)
(* text that json.loads rejects after the code fences are stripped         *)
(* ("unparsable"), a single JSON value that is not a list ("object", which *)
(* the code wraps into a list of one item) or a JSON list ("list").        *)
ExceptionOutcome == [kind |-> "exception", items |-> <<>>]
UnparsableResponse == [kind |-> "unparsable", items |-> <<>>]
ObjectResponse(item) == [kind |-> "object", items |-> <<item>>]
ListResponse(items) == [kind |-> "list", items |-> items]
NoResponse == [kind |-> "none", items |-> <<>>]

(* Mutant of parse_model_response: the parsed items are returned as they    *)
(* are, neither padded nor truncated to the batch length.                  *)
parse_model_response_no_pad(resp, n) ==
    IF resp.kind = "unparsable" THEN AllErrors(n)
    ELSE IF \E i \in 1..Len(resp.items) : resp.items[i].raises THEN AllErrors(n)
    ELSE [i \in 1..Len(resp.items) |-> ParseItem(resp.items[i])]

(* parse_model_response(response_text, num_comments).                      *)
parse_model_response(resp, n) ==
    IF resp.kind = "unparsable" THEN AllErrors(n)
    ELSE LET head == SubSeq(resp.items, 1, Min(n, Len(resp.items)))
         IN  IF \E i \in 1..Len(head) : head[i].raises THEN AllErrors(n)
             ELSE LET parsed == [i \in 1..Len(head) |-> ParseItem(head[i])]
                      padded == parsed \o [i \in 1..(n - Len(head)) |-> ThirdError]
                  IN  SubSeq(padded, 1, n)

(* call_model_batch as a function of what the service does on the          *)
(* successive calls: outcomes[k] is the outcome of call k.                 *)
RECURSIVE CallLoop(_, _, _)
CallLoop(n, outcomes, att) ==
    IF outcomes[att + 1].kind # "exception"
    THEN parse_model_response(outcomes[att + 1], n)
    ELSE IF att < MAX_RETRIES - 1 THEN CallLoop(n, outcomes, att + 1)
    ELSE AllErrors(n)

call_model_batch(n, outcomes) == CallLoop(n, outcomes, 0)

(* The items and the responses the service is made to send to the client.  *)
ClientLabels == {"positive", "irrelevant", "NEGATIVE", ""}
ClientConfs == {Conf(197, 3, 0), Conf(0, 0, 0), Conf(2, -1, 0), Conf(1, 1, 2)}
ClientItems ==
    {DictItem(l, c) : l \in ClientLabels, c \in ClientConfs}
        \cup {NonDictItem, RaisingItem}

ClientResponses(n) ==
    {UnparsableResponse}
        \cup {ObjectResponse(it) : it \in ClientItems}
        \cup {ListResponse(its) :
                 its \in UNION {[1..m -> ClientItems] : m \in 0..(n + 1)}}

ClientInit ==
    /\ c_n \in 1..MaxBatch
    /\ attempt = 0
    /\ service_calls = 0
    /\ c_response = NoResponse
    /\ c_results = <<>>
    /\ cpc = "calling"

(* Mutant of AttemptRaises: the loop allows one attempt more.               *)
AttemptRaisesOnceMore ==
    /\ cpc = "calling"
    /\ attempt < MAX_RETRIES + 1
    /\ service_calls' = service_calls + 1
    /\ c_response' = ExceptionOutcome
    /\ IF attempt < MAX_RETRIES
       THEN /\ attempt' = attempt + 1
            /\ UNCHANGED <<c_results, cpc>>
       ELSE /\ c_results' = AllErrors(c_n)
            /\ cpc' = "returned"
            /\ UNCHANGED attempt
    /\ UNCHANGED c_n
    /\ UNCHANGED nonClientVars

(* One pass of the retry loop in which generate_content (or response.text) *)
(* raises: sleep and retry, or return the error entries on the last        *)
(* attempt.                                                                *)
AttemptRaises ==
    /\ cpc = "calling"
    /\ attempt < MAX_RETRIES
    /\ service_calls' = service_calls + 1
    /\ c_response' = ExceptionOutcome
    /\ IF attempt < MAX_RETRIES - 1
       THEN /\ attempt' = attempt + 1
            /\ UNCHANGED <<c_results, cpc>>
       ELSE /\ c_results' = AllErrors(c_n)
            /\ cpc' = "returned"
            /\ UNCHANGED attempt
    /\ UNCHANGED c_n
    /\ UNCHANGED nonClientVars

(* One pass of the retry loop in which the service answers: the parsed     *)
(* results are returned.                                                   *)
AttemptAnswers ==
    /\ cpc = "calling"
    /\ attempt < MAX_RETRIES
    /\ \E resp \in ClientResponses(c_n) :
          /\ c_response' = resp
          /\ c_results' = parse_model_response(resp, c_n)
    /\ service_calls' = service_calls + 1
    /\ cpc' = "returned"
    /\ UNCHANGED <<c_n, attempt>>
    /\ UNCHANGED nonClientVars

ClientNext ==
    \/ AttemptRaises
    \/ AttemptAnswers

----------------------------------------------------------------------------
(* Consensus decision engine: weighted_soft_voting and process_batch       *)
(* (labeling/labeler.py).                                                  *)

(* Python's None for a label, and for a margin (a margin that is set is    *)
(* the fraction <<numerator, denominator>>).                               *)
None == "None"
NoMargin == <<>>

Decision(final_label, strategy, margin) ==
    [final_label |-> final_label, strategy |-> strategy, margin |-> margin]

(* The placeholder appended to results for a record that needs Pro.        *)
Placeholder == Decision(None, None, NoMargin)

(* confidence = fast_res["confidence"].get(label, 0.0) >= CONF_FAST_ACCEPT *)
LabelConfidenceAccepts(res) ==
    /\ res.label \in LabelSet
    /\ res.num[res.label] * CONF_FAST_ACCEPT[2] >= CONF_FAST_ACCEPT[1] * res.den

(* Mutant of can_fast_accept: the audit draw is ignored.                   *)
can_fast_accept_no_audit(res, audit) == LabelConfidenceAccepts(res)

(* can_fast_accept = confidence >= CONF_FAST_ACCEPT and not is_audit       *)
can_fast_accept(res, audit) == LabelConfidenceAccepts(res) /\ ~audit

(* The weighted scores of one record over the common denominator           *)
(* ScoreDen: a tier whose label is "error" adds nothing.                   *)
FastUsed(fast_res) == fast_res["label"] # "error"
ProUsed(pro_res) == pro_res["label"] # "error"
FastDen(fast_res) == IF FastUsed(fast_res) THEN fast_res.den ELSE 1
ProDen(pro_res) == IF ProUsed(pro_res) THEN pro_res.den ELSE 1
total_weight(fast_res, pro_res) ==
    (IF FastUsed(fast_res) THEN WEIGHT_FAST ELSE 0)
        + (IF ProUsed(pro_res) THEN WEIGHT_PRO ELSE 0)

ScoreNum(fast_res, pro_res, l) ==
    (IF FastUsed(fast_res)
         THEN fast_res.num[l] * WEIGHT_FAST * ProDen(pro_res) ELSE 0)
        + (IF ProUsed(pro_res)
               THEN pro_res.num[l] * WEIGHT_PRO * FastDen(fast_res) ELSE 0)

ScoreDen(fast_res, pro_res) ==
    FastDen(fast_res) * ProDen(pro_res)
        * (IF total_weight(fast_res, pro_res) > 0
               THEN total_weight(fast_res, pro_res) ELSE 1)

(* Mutant of sorted_scores: the scores are sorted in ascending order.       *)
sorted_scores_ascending(fast_res, pro_res) ==
    [k \in 1..Len(LABELS) |->
        LABELS[CHOOSE j \in 1..Len(LABELS) :
                  Cardinality({i \in 1..Len(LABELS) :
                      \/ ScoreNum(fast_res, pro_res, LABELS[i])
                             < ScoreNum(fast_res, pro_res, LABELS[j])
                      \/ /\ ScoreNum(fast_res, pro_res, LABELS[i])
                                = ScoreNum(fast_res, pro_res, LABELS[j])
                         /\ i < j}) = k - 1]]

(* sorted(scores.items(), key=score, reverse=True): the sort is stable, so *)
(* among equal scores the order of LABELS is kept.  Position k (from 1) of *)
(* the sorted list is the label with k - 1 labels before it.               *)
SortedBefore(fast_res, pro_res, i, j) ==
    \/ ScoreNum(fast_res, pro_res, LABELS[i]) > ScoreNum(fast_res, pro_res, LABELS[j])
    \/ /\ ScoreNum(fast_res, pro_res, LABELS[i]) = ScoreNum(fast_res, pro_res, LABELS[j])
       /\ i < j

sorted_scores(fast_res, pro_res) ==
    [k \in 1..Len(LABELS) |->
        LABELS[CHOOSE j \in 1..Len(LABELS) :
                  Cardinality({i \in 1..Len(LABELS) :
                                  SortedBefore(fast_res, pro_res, i, j)}) = k - 1]]

(* margin = s_max - s_2nd, over ScoreDen.                                  *)
MarginNum(fast_res, pro_res) ==
    ScoreNum(fast_res, pro_res, sorted_scores(fast_res, pro_res)[1])
        - ScoreNum(fast_res, pro_res, sorted_scores(fast_res, pro_res)[2])

(* Mutant of MarginReached: the threshold is 0.                            *)
MarginReached_zero(fast_res, pro_res) ==
    MarginNum(fast_res, pro_res) >= 0

(* margin >= MARGIN_THRESHOLD                                              *)
MarginReached(fast_res, pro_res) ==
    MarginNum(fast_res, pro_res) * MARGIN_THRESHOLD[2]
        >= MARGIN_THRESHOLD[1] * ScoreDen(fast_res, pro_res)

(* Mutant of weighted_soft_voting: final_label is not reset to None for a  *)
(* human_review decision.                                                  *)
weighted_soft_voting_keep(fast_res, pro_res) ==
    Decision(sorted_scores(fast_res, pro_res)[1],
             IF MarginReached(fast_res, pro_res)
                 THEN "soft_voting" ELSE "human_review",
             <<MarginNum(fast_res, pro_res), ScoreDen(fast_res, pro_res)>>)

(* weighted_soft_voting for one (fast_res, pro_res) pair, as process_batch *)
(* calls it.                                                               *)
weighted_soft_voting(fast_res, pro_res) ==
    IF MarginReached(fast_res, pro_res)
    THEN Decision(sorted_scores(fast_res, pro_res)[1], "soft_voting",
                  <<MarginNum(fast_res, pro_res), ScoreDen(fast_res, pro_res)>>)
    ELSE Decision(None, "human_review",
                  <<MarginNum(fast_res, pro_res), ScoreDen(fast_res, pro_res)>>)

(* Mutant of ProDecision: equal labels agree even when they are "error".   *)
ProDecision_any_label(fast_res, pro_res) ==
    IF fast_res["label"] = pro_res["label"]
    THEN Decision(fast_res["label"], "agreement", NoMargin)
    ELSE weighted_soft_voting(fast_res, pro_res)

(* The body of the loop over need_pro_indices: agreement or soft voting.   *)
ProDecision(fast_res, pro_res) ==
    IF fast_res["label"] = pro_res["label"] /\ fast_res["label"] # "error"
    THEN Decision(fast_res["label"], "agreement", NoMargin)
    ELSE weighted_soft_voting(fast_res, pro_res)

(* The positions of s, in order, at which s holds TRUE.                    *)
RECURSIVE IndicesWhere(_, _)
IndicesWhere(s, i) ==
    IF i > Len(s) THEN <<>>
    ELSE (IF s[i] THEN <<i>> ELSE <<>>) \o IndicesWhere(s, i + 1)

(* The position of x in the sequence s of distinct values.                 *)
PositionIn(s, x) == CHOOSE k \in 1..Len(s) : s[k] = x

(* The items the service is made to send to process_batch, and what it     *)
(* does on the calls of one call_model_batch: it answers the first call    *)
(* with a list of n items, or it raises on every call.                     *)
BatchItems ==
    { DictItem("positive", Conf(197, 3, 0)),
      DictItem("Positive", Conf(196, 3, 1)),
      DictItem("NEGATIVE", Conf(0, 3, 197)),
      DictItem("irrelevant", Conf(1, 2, 1)),
      DictItem("negative", Conf(2, -1, 0)),
      DictItem("", Conf(0, 0, 0)) }

BatchOutcomes(n) ==
    {<<ListResponse(its)>> : its \in [1..n -> BatchItems]}
        \cup {[k \in 1..MAX_RETRIES |-> ExceptionOutcome]}

BatchInit ==
    /\ b_n \in 1..MaxBatch
    /\ fast_results = <<>>
    /\ is_audit = <<>>
    /\ results = <<>>
    /\ need_pro_indices = <<>>
    /\ pro_comments = <<>>
    /\ pro_results = <<>>
    /\ bpc = "fast"

(* process_batch, step 1: the Fast call and the loop over fast_results.    *)
(* random.random() < AUDIT_RATE is a free choice per record.  Without a    *)
(* record that needs Pro the function returns.                             *)
FastStep ==
    /\ bpc = "fast"
    /\ \E outcomes \in BatchOutcomes(b_n), audit \in [1..b_n -> BOOLEAN] :
          LET fr == call_model_batch(b_n, outcomes)
              need == [i \in 1..b_n |-> ~can_fast_accept(fr[i], audit[i])]
          IN  /\ fast_results' = fr
              /\ is_audit' = audit
              /\ results' = [i \in 1..b_n |->
                                IF can_fast_accept(fr[i], audit[i])
                                THEN Decision(fr[i]["label"], "fast_accept", NoMargin)
                                ELSE Placeholder]
              /\ need_pro_indices' = IndicesWhere(need, 1)
              /\ bpc' = IF IndicesWhere(need, 1) = <<>> THEN "returned" ELSE "pro"
    /\ UNCHANGED <<b_n, pro_comments, pro_results>>
    /\ UNCHANGED nonBatchVars

(* process_batch, step 2: the Pro call for the records of need_pro_indices *)
(* and the loop that decides them.                                         *)
ProStep ==
    /\ bpc = "pro"
    /\ \E outcomes \in BatchOutcomes(Len(need_pro_indices)) :
          LET pr == call_model_batch(Len(need_pro_indices), outcomes)
          IN  /\ pro_results' = pr
              /\ results' = [i \in 1..b_n |->
                                IF \E k \in 1..Len(need_pro_indices) :
                                       need_pro_indices[k] = i
                                THEN ProDecision(fast_results[i],
                                         pr[PositionIn(need_pro_indices, i)])
                                ELSE results[i]]
    /\ pro_comments' = Append(pro_comments, need_pro_indices)
    /\ bpc' = "returned"
    /\ UNCHANGED <<b_n, fast_results, is_audit, need_pro_indices>>
    /\ UNCHANGED nonBatchVars

BatchNext ==
    \/ FastStep
    \/ ProStep

----------------------------------------------------------------------------
(* Merge of the shard outputs: merge_labeled_comments                      *)
(* (youtube_crawler/merge_labeled_comments.py, run by the orchestrator)    *)
(* and merge_labeled_files (youtube_crawler/recheck_labels.py).            *)
(*                                                                         *)
(* A sentiment_score is an integer number of 1e-5 units (100000 is 1.0).   *)
(* NaN stands for a missing score and NoLabel for a missing label (pandas  *)
(* NaN, or the empty string of csv.DictReader).                            *)

NaN == -1
NoLabel == ""

(* f"{score:.4f}": the score rounded to four decimals.                     *)
Format4(score) == ((score + 5) \div 10) * 10

Row(id, label, score) ==
    [comment_id |-> id, sentiment_label |-> label, sentiment_score |-> score]

RECURSIVE ConcatRows(_)
ConcatRows(files) ==
    IF files = <<>> THEN <<>> ELSE Head(files) \o ConcatRows(Tail(files))

(* The positions of the rows of s that carry the id.                       *)
PositionsOf(s, id) == {k \in 1..Len(s) : s[k].comment_id = id}

MinOf(S) == CHOOSE x \in S : \A y \in S : x <= y
MaxOf(S) == CHOOSE x \in S : \A y \in S : x >= y

(* The order in which the file system enumerates the labeled files (glob,  *)
(* or the order in which the workers completed): file order[k] of          *)
(* labeled_files comes k-th.  A file's path is its rank among the paths.   *)
Enumerated(files, order) ==
    [k \in 1..Len(order) |-> [path |-> order[k], rows |-> files[order[k]]]]

(* Mutant of sorted_paths: the files are taken in enumeration order.       *)
enumeration_order(listing) == listing

(* sorted(labeled_files): the listing ordered by path.                     *)
sorted_paths(listing) ==
    [k \in 1..Len(listing) |->
        listing[CHOOSE j \in 1..Len(listing) :
                   Cardinality({i \in 1..Len(listing) :
                                   listing[i].path < listing[j].path}) = k - 1]]

(* The rows read from each file of a listing, in listing order.            *)
FileRows(listing) == [k \in 1..Len(listing) |-> listing[k].rows]

(* Mutant of drop_duplicates: every row is kept.                           *)
keep_all_rows(s) == s

(* merged_labeled.drop_duplicates(subset=['comment_id'], keep='first'):    *)
(* the rows that are the first of their id, in order.                      *)
RECURSIVE DropDuplicatesLoop(_, _)
DropDuplicatesLoop(s, k) ==
    IF k > Len(s) THEN <<>>
    ELSE (IF k = MinOf(PositionsOf(s, s[k].comment_id)) THEN <<s[k]>> ELSE <<>>)
             \o DropDuplicatesLoop(s, k + 1)

drop_duplicates(s) == DropDuplicatesLoop(s, 1)

(* sentiment_map[comment_id] after the loops over the files and their      *)
(* rows: every row overwrites the entry of its id.                         *)
sentiment_map(s, id) == s[MaxOf(PositionsOf(s, id))]

(* The sentiment columns of the main CSV: missing (has = FALSE) or present *)
(* with the given values.                                                  *)
HasOriginalLabels(row) == row.has

(* The rows of s that carry the id, in order.                              *)
RECURSIVE RowsOf(_, _)
RowsOf(s, id) ==
    IF s = <<>> THEN <<>>
    ELSE (IF Head(s).comment_id = id THEN <<Head(s)>> ELSE <<>>)
             \o RowsOf(Tail(s), id)

(* merge_labeled_comments: the rows of main_df that the left join makes of *)
(* one row of the main CSV, after the handling of the _new columns: one    *)
(* row per row of merged_labeled with its id, or one row without a new     *)
(* label.                                                                  *)
JoinedRows(row, merged_labeled) ==
    LET matches == RowsOf(merged_labeled, row.comment_id)
    IN  IF matches # <<>>
        THEN [m \in 1..Len(matches) |->
                 Row(row.comment_id, matches[m].sentiment_label,
                     matches[m].sentiment_score)]
        ELSE IF HasOriginalLabels(row)
             THEN <<Row(row.comment_id, row.sentiment_label, row.sentiment_score)>>
             ELSE <<Row(row.comment_id, NoLabel, NaN)>>

(* filter_mask: not (sentiment_label == 'neutral' and sentiment_score == 0) *)
filter_mask(row) ==
    ~(row.sentiment_label = "neutral" /\ row.sentiment_score = 0)

merge_labeled_comments(main, listing) ==
    LET merged_labeled ==
            drop_duplicates(ConcatRows(FileRows(sorted_paths(listing))))
    IN  SelectSeq(ConcatRows([k \in 1..Len(main) |->
                                 JoinedRows(main[k], merged_labeled)]),
                  filter_mask)

(* merge_labeled_files: the output row written for one row of the main CSV. *)
OutputRow(row, lab_rows) ==
    IF PositionsOf(lab_rows, row.comment_id) # {}
    THEN LET entry == sentiment_map(lab_rows, row.comment_id)
         IN  Row(row.comment_id, entry.sentiment_label,
                 Format4(entry.sentiment_score))
    ELSE IF HasOriginalLabels(row)
         THEN Row(row.comment_id, row.sentiment_label, row.sentiment_score)
         ELSE Row(row.comment_id, "neutral", 0)

merge_labeled_files(main, listing) ==
    LET lab_rows == ConcatRows(FileRows(sorted_paths(listing)))
    IN  [k \in 1..Len(main) |-> OutputRow(main[k], lab_rows)]

(* The main CSV: the unique ids 1..M; its sentiment columns are missing,   *)
(* present and empty, or present with a prior neutral / 0.0 label.         *)
MainRow(id, has, label, score) ==
    [comment_id |-> id, has |-> has, sentiment_label |-> label,
     sentiment_score |-> score]

MainDatasets ==
    UNION {{[i \in 1..M |-> MainRow(i, FALSE, NoLabel, NaN)],
            [i \in 1..M |-> MainRow(i, TRUE, NoLabel, NaN)],
            [i \in 1..M |-> MainRow(i, TRUE, "neutral", 0)]} : M \in 1..MaxMain}

(* The labeled files: what process_csv writes for a row is its id, a valid *)
(* label and the score of the service clamped to [0, 1] and formatted with *)
(* four decimals ("neutral" / 0.0000 for a blank text or a failed batch).  *)
(* The ids range over 1..MaxMain, so that with a shorter main CSV an id of *)
(* a labeled file can be foreign, and ids may repeat in and across files.  *)
LabeledValues ==
    {<<"neutral", Format4(0)>>, <<"positive", Format4(98765)>>}
LabeledRows ==
    {Row(id, v[1], v[2]) : id \in 1..MaxMain, v \in LabeledValues}

(* The labeled files hold at most MaxLabeledRows rows together: a sequence *)
(* of rows s cut into the files of a list at the positions c, file k       *)
(* ending after row c[k] (a file can be empty).                            *)
LabeledSeqs == UNION {[1..n -> LabeledRows] : n \in 0..MaxLabeledRows}

CutsOf(n) ==
    UNION {{c \in [1..f -> 0..n] :
               c[f] = n /\ \A k \in 1..(f - 1) : c[k] <= c[k + 1]} :
           f \in 1..MaxFiles}

FilesOf(s, c) ==
    [k \in 1..Len(c) |-> SubSeq(s, (IF k = 1 THEN 0 ELSE c[k - 1]) + 1, c[k])]

LabeledFileLists ==
    UNION {{FilesOf(s, c) : c \in CutsOf(Len(s))} : s \in LabeledSeqs}

(* The orders in which n files can be enumerated.                          *)
Orders(n) == {o \in [1..n -> 1..n] : \A i, j \in 1..n : i # j => o[i] # o[j]}

MergeInit ==
    /\ main_rows \in MainDatasets
    /\ labeled_files \in LabeledFileLists
    /\ glob_order \in Orders(Len(labeled_files))
    /\ merger \in {"merge_labeled_comments", "merge_labeled_files"}
    /\ final_rows = <<>>
    /\ mpc = "ready"

MergeCommentsRun ==
    /\ mpc = "ready"
    /\ merger = "merge_labeled_comments"
    /\ final_rows' = merge_labeled_comments(main_rows,
                       Enumerated(labeled_files, glob_order))
    /\ mpc' = "done"
    /\ UNCHANGED <<main_rows, labeled_files, glob_order, merger>>
    /\ UNCHANGED nonMergeVars

MergeFilesRun ==
    /\ mpc = "ready"
    /\ merger = "merge_labeled_files"
    /\ final_rows' = merge_labeled_files(main_rows,
                       Enumerated(labeled_files, glob_order))
    /\ mpc' = "done"
    /\ UNCHANGED <<main_rows, labeled_files, glob_order, merger>>
    /\ UNCHANGED nonMergeVars

MergeNext ==
    \/ MergeCommentsRun
    \/ MergeFilesRun

----------------------------------------------------------------------------
(* Labeling of one part by label_comments.process_csv, followed by the     *)
(* merge of its labeled file into the main CSV (merge_labeled_comments).   *)
(* Row i of the part has comment_id i.                                     *)

DEFAULT_BATCH_SIZE == 100

(* A score is an integer number of 1e-5 units; parse_batch_response clamps *)
(* it to [0, 1].                                                           *)
ClampScore(score) == Max(0, Min(100000, score))

(* What the service does for one batch: label_batch raises after its       *)
(* attempts ("raises"), or parse_batch_response returns the entries of the *)
(* rows the response holds ("answers"; a row can be omitted).  No call is  *)
(* made for a batch without a row to send.                                 *)
Omitted == <<>>
NoCall == [kind |-> "none", items |-> <<>>]
RaisesOutcome == [kind |-> "raises", items |-> <<>>]
AnswerOutcome(items) == [kind |-> "answers", items |-> items]

AnswerValues ==
    {<<"neutral", 0>>, <<"neutral", 50000>>, <<"positive", 98765>>,
     <<"negative", 120000>>}

LabelOutcomes(pending) ==
    IF pending = {} THEN {NoCall}
    ELSE {RaisesOutcome}
             \cup {AnswerOutcome(items) :
                      items \in {f \in [pending -> AnswerValues \cup {Omitted}] :
                                    \E i \in pending : f[i] # Omitted}}

(* label, score = batch_result.get(global_idx, ("neutral", 0.0)), where    *)
(* batch_result is {} when label_batch raised.                             *)
batch_result_get(outcome, i) ==
    IF outcome.kind = "answers" /\ outcome.items[i] # Omitted
    THEN <<outcome.items[i][1], ClampScore(outcome.items[i][2])>>
    ELSE <<"neutral", 0>>

(* The output row of row i of the batch: neutral / 0.0000 without a call   *)
(* for a blank text, otherwise the entry of the batch result.              *)
row_output(texts, outcome, i) ==
    IF texts[i] = "blank" THEN Row(i, "neutral", Format4(0))
    ELSE Row(i, batch_result_get(outcome, i)[1],
             Format4(batch_result_get(outcome, i)[2]))

LabelInit ==
    /\ l_texts \in UNION {[1..n -> {"blank", "text"}] : n \in 1..MaxLabelRows}
    /\ l_offset = 0
    /\ l_response = NoCall
    /\ l_sent = {}
    /\ l_output = <<>>
    /\ l_final = <<>>
    /\ lpc = "label"

(* process_csv: one pass of the loop over the batches: the rows with a     *)
(* blank text are written as neutral / 0.0000, the others are sent to the  *)
(* service in one label_batch call, and the rows of the batch are written  *)
(* in row order.                                                           *)
ProcessCsvBatch ==
    /\ lpc = "label"
    /\ l_offset < Len(l_texts)
    /\ LET last == Min(l_offset + DEFAULT_BATCH_SIZE, Len(l_texts))
           pending_indices == {i \in (l_offset + 1)..last : l_texts[i] = "text"}
       IN  /\ \E outcome \in LabelOutcomes(pending_indices) :
                 /\ l_response' = outcome
                 /\ l_output' = l_output \o
                        [k \in 1..(last - l_offset) |->
                            row_output(l_texts, outcome, l_offset + k)]
           /\ l_sent' = l_sent \cup pending_indices
           /\ lpc' = IF last >= Len(l_texts) THEN "labeled" ELSE "label"
    /\ l_offset' = l_offset + DEFAULT_BATCH_SIZE
    /\ UNCHANGED <<l_texts, l_final>>
    /\ UNCHANGED nonLabelVars

(* merge_labeled_comments over the main CSV (the rows of the part, without *)
(* sentiment columns) and the labeled file of the part.                    *)
MergeLabeledPart ==
    /\ lpc = "labeled"
    /\ l_final' = merge_labeled_comments(
                      [i \in 1..Len(l_texts) |-> MainRow(i, FALSE, NoLabel, NaN)],
                      <<[path |-> 1, rows |-> l_output]>>)
    /\ lpc' = "done"
    /\ UNCHANGED <<l_texts, l_offset, l_response, l_sent, l_output>>
    /\ UNCHANGED nonLabelVars

LabelNext ==
    \/ ProcessCsvBatch
    \/ MergeLabeledPart

----------------------------------------------------------------------------
(* Worker orchestrator: run_parallel_labeling (labeling/run_parallel.py),  *)
(* and split_csv + label_all_parts_parallel + merge as main() runs them in *)
(* youtube_crawler/label_comments_orchestrator.py and recheck_labels.py.   *)
(*                                                                         *)
(* The worker of a shard is "pending" (submitted to the pool, not yet      *)
(* started), "running", or stopped: "exit0", "exit1" (non-zero exit, or    *)
(* label_csv_part returning success = False) or "terminated" (ended by the *)
(* SIGTERM of process.terminate()).                                        *)

PoolOrchestrators == {"label_comments_orchestrator", "recheck_labels"}

Stopped(i) == processes[i] \in {"exit0", "exit1", "terminated"}

Running == {i \in 1..Len(processes) : processes[i] = "running"}

(* The shards of a sequence of shards.                                     *)
ShardsOf(s) == {s[k] : k \in 1..Len(s)}

Recorded == ShardsOf(successful_outputs) \cup ShardsOf(failed_inputs)

OrchInit ==
    /\ orchestrator \in {"run_parallel"} \cup PoolOrchestrators
    /\ total_rows \in 1..MaxOrchRows
    /\ api_keys \in 1..MaxKeys
    /\ n_split = 0
    /\ warned = FALSE
    /\ processes = <<>>
    /\ wait_idx = 0
    /\ successful_outputs = <<>>
    /\ failed_inputs = <<>>
    /\ terminate_sent = {}
    /\ interrupted = FALSE
    /\ alive_at_interrupt = {}
    /\ merged_labels = {}
    /\ opc = IF orchestrator = "run_parallel" THEN "launch" ELSE "split"

(* main(): split_files = split_csv(csv_path, len(api_keys)).               *)
SplitCsvStep ==
    /\ opc = "split"
    /\ n_split' = Len(split_csv([i \in 1..total_rows |-> i], api_keys))
    /\ warned' = (api_keys > total_rows)
    /\ opc' = "label"
    /\ UNCHANGED <<orchestrator, total_rows, api_keys, processes, wait_idx,
                   successful_outputs, failed_inputs, terminate_sent,
                   interrupted, alive_at_interrupt, merged_labels>>
    /\ UNCHANGED nonOrchVars

(* label_all_parts_parallel up to the submission of the tasks: it exits    *)
(* when the number of split files is not the number of API keys.           *)
LabelAllPartsSubmit ==
    /\ opc = "label"
    /\ IF n_split # api_keys
       THEN /\ opc' = "exit_mismatch"
            /\ UNCHANGED processes
       ELSE /\ opc' = "wait"
            /\ processes' = [i \in 1..n_split |-> "pending"]
    /\ UNCHANGED <<orchestrator, total_rows, api_keys, n_split, warned, wait_idx,
                   successful_outputs, failed_inputs, terminate_sent,
                   interrupted, alive_at_interrupt, merged_labels>>
    /\ UNCHANGED nonOrchVars

(* run_parallel_labeling: one pass of the launch loop for a part file that *)
(* exists: subprocess.Popen starts the worker.                             *)
Launch ==
    /\ orchestrator = "run_parallel"
    /\ opc = "launch"
    /\ processes' = Append(processes, "running")
    /\ n_split' = n_split + 1
    /\ opc' = IF n_split + 1 = api_keys THEN "wait" ELSE "launch"
    /\ wait_idx' = 1
    /\ UNCHANGED <<orchestrator, total_rows, api_keys, warned,
                   successful_outputs, failed_inputs, terminate_sent,
                   interrupted, alive_at_interrupt, merged_labels>>
    /\ UNCHANGED nonOrchVars

(* A process of the pool takes the task of a shard.                        *)
WorkerStart ==
    /\ \E i \in 1..Len(processes) :
          /\ processes[i] = "pending"
          /\ processes' = [processes EXCEPT ![i] = "running"]
    /\ UNCHANGED <<orchestrator, total_rows, api_keys, n_split, warned, wait_idx,
                   successful_outputs, failed_inputs, terminate_sent,
                   interrupted, alive_at_interrupt, merged_labels, opc>>
    /\ UNCHANGED nonOrchVars

(* A worker ends by itself, with exit code 0 or with a failure.            *)
WorkerExits ==
    /\ \E i \in 1..Len(processes), code \in {"exit0", "exit1"} :
          /\ processes[i] = "running"
          /\ processes' = [processes EXCEPT ![i] = code]
    /\ UNCHANGED <<orchestrator, total_rows, api_keys, n_split, warned, wait_idx,
                   successful_outputs, failed_inputs, terminate_sent,
                   interrupted, alive_at_interrupt, merged_labels, opc>>
    /\ UNCHANGED nonOrchVars

(* The SIGTERM of process.terminate() ends a worker that still runs.       *)
WorkerTerminated ==
    /\ \E i \in 1..Len(processes) :
          /\ processes[i] = "running"
          /\ i \in terminate_sent
          /\ processes' = [processes EXCEPT ![i] = "terminated"]
    /\ UNCHANGED <<orchestrator, total_rows, api_keys, n_split, warned, wait_idx,
                   successful_outputs, failed_inputs, terminate_sent,
                   interrupted, alive_at_interrupt, merged_labels, opc>>
    /\ UNCHANGED nonOrchVars

(* Mutant of WaitReturns: the wait loop stops at the first worker that     *)
(* exits non-zero.                                                         *)
WaitReturnsStopOnError ==
    /\ orchestrator = "run_parallel"
    /\ opc = "wait"
    /\ Stopped(wait_idx)
    /\ IF processes[wait_idx] = "exit0"
       THEN /\ successful_outputs' = Append(successful_outputs, wait_idx)
            /\ UNCHANGED failed_inputs
            /\ opc' = IF wait_idx = n_split THEN "done" ELSE "wait"
       ELSE /\ failed_inputs' = Append(failed_inputs, wait_idx)
            /\ UNCHANGED successful_outputs
            /\ opc' = "done"
    /\ wait_idx' = wait_idx + 1
    /\ UNCHANGED <<orchestrator, total_rows, api_keys, n_split, warned, processes,
                   terminate_sent, interrupted, alive_at_interrupt,
                   merged_labels>>
    /\ UNCHANGED nonOrchVars

(* run_parallel_labeling: one pass of the wait loop: process.wait()        *)
(* returns for the next worker of the list and its outcome is reported.    *)
WaitReturns ==
    /\ orchestrator = "run_parallel"
    /\ opc = "wait"
    /\ Stopped(wait_idx)
    /\ IF processes[wait_idx] = "exit0"
       THEN /\ successful_outputs' = Append(successful_outputs, wait_idx)
            /\ UNCHANGED failed_inputs
       ELSE /\ failed_inputs' = Append(failed_inputs, wait_idx)
            /\ UNCHANGED successful_outputs
    /\ wait_idx' = wait_idx + 1
    /\ opc' = IF wait_idx = n_split THEN "done" ELSE "wait"
    /\ UNCHANGED <<orchestrator, total_rows, api_keys, n_split, warned, processes,
                   terminate_sent, interrupted, alive_at_interrupt,
                   merged_labels>>
    /\ UNCHANGED nonOrchVars

(* label_all_parts_parallel: one pass of the as_completed loop: the future *)
(* of a stopped worker is taken and its outcome recorded; after the last   *)
(* one the function returns.                                               *)
FutureCompleted ==
    /\ orchestrator \in PoolOrchestrators
    /\ opc = "wait"
    /\ \E i \in 1..n_split :
          /\ Stopped(i)
          /\ i \notin Recorded
          /\ IF processes[i] = "exit0"
             THEN /\ successful_outputs' = Append(successful_outputs, i)
                  /\ UNCHANGED failed_inputs
             ELSE /\ failed_inputs' = Append(failed_inputs, i)
                  /\ UNCHANGED successful_outputs
          /\ opc' = IF Recorded \cup {i} = 1..n_split THEN "labeled" ELSE "wait"
    /\ UNCHANGED <<orchestrator, total_rows, api_keys, n_split, warned, processes,
                   wait_idx, terminate_sent, interrupted, alive_at_interrupt,
                   merged_labels>>
    /\ UNCHANGED nonOrchVars

(* main(): if not successful_outputs: sys.exit(1).                         *)
ExitNoSuccess ==
    /\ opc = "labeled"
    /\ successful_outputs = <<>>
    /\ opc' = "exit_no_success"
    /\ UNCHANGED <<orchestrator, total_rows, api_keys, n_split, warned, processes,
                   wait_idx, successful_outputs, failed_inputs, terminate_sent,
                   interrupted, alive_at_interrupt, merged_labels>>
    /\ UNCHANGED nonOrchVars

(* recheck_labels.main(): merge_labeled_files(csv_path, successful_outputs, *)
(* output_csv).                                                            *)
MergeLabeledFiles ==
    /\ orchestrator = "recheck_labels"
    /\ opc = "labeled"
    /\ successful_outputs # <<>>
    /\ merged_labels' = ShardsOf(successful_outputs)
    /\ opc' = "done"
    /\ UNCHANGED <<orchestrator, total_rows, api_keys, n_split, warned, processes,
                   wait_idx, successful_outputs, failed_inputs, terminate_sent,
                   interrupted, alive_at_interrupt>>
    /\ UNCHANGED nonOrchVars

(* label_comments_orchestrator.main(): the merge script is run with        *)
(* --main-csv, --labeled-pattern and --output-csv.  The script's __main__  *)
(* block does not read its arguments: it merges the files of three fixed   *)
(* paths (whose labeled pattern, ..._l*_r*_labeled.csv, matches no          *)
(* ..._part<k>_labeled.csv file), so no label of this run reaches a final  *)
(* dataset, and its exit code depends on whether the fixed files exist.    *)
RunMergeScript ==
    /\ orchestrator = "label_comments_orchestrator"
    /\ opc = "labeled"
    /\ successful_outputs # <<>>
    /\ merged_labels' = {}
    /\ \E returncode \in {0, 1} :
          opc' = IF returncode = 0 THEN "done" ELSE "exit_merge_failed"
    /\ UNCHANGED <<orchestrator, total_rows, api_keys, n_split, warned, processes,
                   wait_idx, successful_outputs, failed_inputs, terminate_sent,
                   interrupted, alive_at_interrupt>>
    /\ UNCHANGED nonOrchVars

(* run_parallel_labeling: KeyboardInterrupt in the launch loop, which is   *)
(* outside the try block: the orchestrator ends with the exception.        *)
InterruptDuringLaunch ==
    /\ orchestrator = "run_parallel"
    /\ opc = "launch"
    /\ n_split >= 1
    /\ interrupted' = TRUE
    /\ alive_at_interrupt' = Running
    /\ opc' = "exit_uncaught"
    /\ UNCHANGED <<orchestrator, total_rows, api_keys, n_split, warned, processes,
                   wait_idx, successful_outputs, failed_inputs, terminate_sent,
                   merged_labels>>
    /\ UNCHANGED nonOrchVars

(* run_parallel_labeling: KeyboardInterrupt in the wait loop: the except   *)
(* branch calls process.terminate() on every process of the list and the   *)
(* function returns.                                                       *)
InterruptDuringWait ==
    /\ orchestrator = "run_parallel"
    /\ opc = "wait"
    /\ interrupted' = TRUE
    /\ alive_at_interrupt' = Running
    /\ terminate_sent' = 1..n_split
    /\ opc' = "exit_interrupt"
    /\ UNCHANGED <<orchestrator, total_rows, api_keys, n_split, warned, processes,
                   wait_idx, successful_outputs, failed_inputs, merged_labels>>
    /\ UNCHANGED nonOrchVars

(* label_all_parts_parallel: KeyboardInterrupt in the as_completed loop    *)
(* leaves the with block, whose exit is executor.shutdown(wait=True).      *)
InterruptPool ==
    /\ orchestrator \in PoolOrchestrators
    /\ opc = "wait"
    /\ interrupted' = TRUE
    /\ alive_at_interrupt' = Running
    /\ opc' = "shutdown"
    /\ UNCHANGED <<orchestrator, total_rows, api_keys, n_split, warned, processes,
                   wait_idx, successful_outputs, failed_inputs, terminate_sent,
                   merged_labels>>
    /\ UNCHANGED nonOrchVars

(* shutdown(wait=True) returns when every submitted task has run to its    *)
(* end; __main__ then catches the KeyboardInterrupt and exits with 1.      *)
ShutdownExit ==
    /\ opc = "shutdown"
    /\ \A i \in 1..n_split : Stopped(i)
    /\ opc' = "exit_interrupt"
    /\ UNCHANGED <<orchestrator, total_rows, api_keys, n_split, warned, processes,
                   wait_idx, successful_outputs, failed_inputs, terminate_sent,
                   interrupted, alive_at_interrupt, merged_labels>>
    /\ UNCHANGED nonOrchVars

OrchNext ==
    \/ SplitCsvStep
    \/ LabelAllPartsSubmit
    \/ Launch
    \/ WorkerStart
    \/ WorkerExits
    \/ WorkerTerminated
    \/ WaitReturns
    \/ FutureCompleted
    \/ ExitNoSuccess
    \/ MergeLabeledFiles
    \/ RunMergeScript
    \/ InterruptDuringLaunch
    \/ InterruptDuringWait
    \/ InterruptPool
    \/ ShutdownExit

----------------------------------------------------------------------------
(* The worker does not run in the specifications of the other components. *)
WorkerIdle ==
    /\ shardLen = 0
    /\ pc = "off"
    /\ start_idx = 0
    /\ total_batches = 0
    /\ batch_num = 0
    /\ labeled = {}
    /\ saveIdx = 0
    /\ ckptFile = AbsentFile
    /\ resultsFile = AbsentFile
    /\ outputFile = AbsentFile
    /\ processedEver = {}
    /\ lastWritten = NoCheckpoint
    /\ killedAfterWrite = FALSE
    /\ input_file = NoInput
    /\ ckptFor = NoInput
    /\ resumedFor = NoInput

LabelIdle ==
    /\ l_texts = <<>>
    /\ l_offset = 0
    /\ l_response = NoCall
    /\ l_sent = {}
    /\ l_output = <<>>
    /\ l_final = <<>>
    /\ lpc = "off"

SplitIdle ==
    /\ rows = <<>>
    /\ num_parts = 0
    /\ splitter = "none"
    /\ split_files = <<>>
    /\ spc = "off"

ClientIdle ==
    /\ c_n = 0
    /\ attempt = 0
    /\ service_calls = 0
    /\ c_response = NoResponse
    /\ c_results = <<>>
    /\ cpc = "off"

BatchIdle ==
    /\ b_n = 0
    /\ fast_results = <<>>
    /\ is_audit = <<>>
    /\ results = <<>>
    /\ need_pro_indices = <<>>
    /\ pro_comments = <<>>
    /\ pro_results = <<>>
    /\ bpc = "off"

MergeIdle ==
    /\ main_rows = <<>>
    /\ labeled_files = <<>>
    /\ glob_order = <<>>
    /\ merger = "none"
    /\ final_rows = <<>>
    /\ mpc = "off"

OrchIdle ==
    /\ orchestrator = "none"
    /\ total_rows = 0
    /\ api_keys = 0
    /\ n_split = 0
    /\ warned = FALSE
    /\ processes = <<>>
    /\ wait_idx = 0
    /\ successful_outputs = <<>>
    /\ failed_inputs = <<>>
    /\ terminate_sent = {}
    /\ interrupted = FALSE
    /\ alive_at_interrupt = {}
    /\ merged_labels = {}
    /\ opc = "off"

Init == WorkerInit /\ SplitIdle /\ ClientIdle /\ BatchIdle /\ MergeIdle /\ OrchIdle
        /\ LabelIdle
Next == WorkerNext
Spec == Init /\ [][Next]_vars

(* The worker of one part number, first launched by run_parallel_test.py   *)
(* on a test part and later by run_parallel.py on the full part.           *)
PartSpecInit ==
    /\ WorkerInitOn(TestInput, MaxPartLen)
    /\ SplitIdle /\ ClientIdle /\ BatchIdle /\ MergeIdle /\ OrchIdle
        /\ LabelIdle
PartNext == WorkerNext \/ StartFullRunAfterTest
PartSpec == PartSpecInit /\ [][PartNext]_vars

SplitSpecInit ==
    SplitInit /\ WorkerIdle /\ ClientIdle /\ BatchIdle /\ MergeIdle /\ OrchIdle
        /\ LabelIdle
SplitSpec == SplitSpecInit /\ [][SplitNext]_vars

ClientSpecInit ==
    ClientInit /\ WorkerIdle /\ SplitIdle /\ BatchIdle /\ MergeIdle /\ OrchIdle
        /\ LabelIdle
ClientSpec == ClientSpecInit /\ [][ClientNext]_vars

BatchSpecInit ==
    BatchInit /\ WorkerIdle /\ SplitIdle /\ ClientIdle /\ MergeIdle /\ OrchIdle
        /\ LabelIdle
BatchSpec == BatchSpecInit /\ [][BatchNext]_vars

MergeSpecInit ==
    MergeInit /\ WorkerIdle /\ SplitIdle /\ ClientIdle /\ BatchIdle /\ OrchIdle
        /\ LabelIdle
MergeSpec == MergeSpecInit /\ [][MergeNext]_vars

OrchSpecInit ==
    OrchInit /\ WorkerIdle /\ SplitIdle /\ ClientIdle /\ BatchIdle /\ MergeIdle
        /\ LabelIdle
OrchSpec == OrchSpecInit /\ [][OrchNext]_vars

LabelSpecInit ==
    LabelInit /\ WorkerIdle /\ SplitIdle /\ ClientIdle /\ BatchIdle /\ MergeIdle
        /\ OrchIdle
LabelSpec == LabelSpecInit /\ [][LabelNext]_vars

----------------------------------------------------------------------------
(* Claims about the shard worker (specification Spec).                     *)

(* Rows whose decision was computed by an earlier run and that the run     *)
(* starting at start_idx computes again.                                   *)
Reprocessed == {i \in processedEver : i >= start_idx}

(* C1: when a killed worker is restarted, the restarted run re-processes   *)
(* at most one batch (BATCH_SIZE rows) that had been processed before.     *)
C1_ResumeAtMostOneBatch ==
    (pc = "loop" /\ batch_num = 0) => Cardinality(Reprocessed) <= BATCH_SIZE

C3_CheckpointAtomic ==
    /\ ckptFile.kind \in {"absent", "json"}
    /\ (ckptFile.kind = "json" /\ ckptFile.last_processed_idx >= 0) =>
           /\ resultsFile.kind = "csv"
           /\ ckptFile.last_processed_idx \in resultsFile.rows

C20_CheckpointBounds ==
    ckptFile.kind = "json" =>
        /\ 0 <= ckptFile.last_processed_idx
        /\ ckptFile.last_processed_idx <= shardLen

----------------------------------------------------------------------------
(* Claims about the shard splitter (specification SplitSpec).              *)

RECURSIVE SumLen(_)
SumLen(files) ==
    IF files = <<>> THEN 0 ELSE Len(Head(files)) + SumLen(Tail(files))

RECURSIVE Concat(_)
Concat(files) ==
    IF files = <<>> THEN <<>> ELSE Head(files) \o Concat(Tail(files))

C5_ContiguousPartition ==
    spc = "done" =>
        /\ Concat(split_files) = rows
        /\ \A i, j \in 1..Len(split_files) :
               i # j => {split_files[i][k] : k \in 1..Len(split_files[i])} \cap
                        {split_files[j][k] : k \in 1..Len(split_files[j])} = {}

(* C5 witness: a split into several parts of several rows.                 *)
C5_Witness ==
    /\ spc = "done"
    /\ Len(split_files) >= 3
    /\ \A i \in 1..Len(split_files) : Len(split_files[i]) >= 2

----------------------------------------------------------------------------
(* Claims about the classification client (specification ClientSpec).      *)

(* C6: every ClassificationResult the client returns has three confidence  *)
(* values that are each >= 0 and that sum to 1.                            *)
C6_ConfidenceDistribution ==
    cpc = "returned" =>
        \A i \in 1..Len(c_results) :
            /\ \A l \in LabelSet : c_results[i].num[l] >= 0
            /\ c_results[i].num["positive"] + c_results[i].num["neutral"]
                   + c_results[i].num["negative"] = c_results[i].den

----------------------------------------------------------------------------
(* Claims about the decision engine (specification BatchSpec).             *)

(* C7: for every decision process_batch returns, strategy = human_review   *)
(* if and only if final_label is None; final_label is never "error", and a *)
(* fast_accept, agreement or soft_voting decision carries one of           *)
(* positive / neutral / negative.                                          *)
C7_HumanReviewIffNull ==
    bpc = "returned" =>
        \A i \in 1..Len(results) :
            /\ results[i].strategy \in
                   {"fast_accept", "agreement", "soft_voting", "human_review"}
            /\ results[i].strategy = "human_review" <=> results[i].final_label = None
            /\ results[i].final_label # "error"
            /\ results[i].strategy # "human_review" =>
                   results[i].final_label \in LabelSet

(* C7 witness: a returned batch with a human_review decision and a         *)
(* soft_voting decision.                                                   *)
C7_Witness ==
    /\ bpc = "returned"
    /\ \E i, j \in 1..Len(results) :
          /\ results[i].strategy = "human_review"
          /\ results[j].strategy = "soft_voting"

(* C8: the margin of a soft_voting or human_review decision lies in [0, 1] *)
(* and the margin of a fast_accept or agreement decision is None.          *)
C8_MarginRange ==
    bpc = "returned" =>
        \A i \in 1..Len(results) :
            /\ results[i].strategy \in {"soft_voting", "human_review"} =>
                   /\ results[i].margin # NoMargin
                   /\ results[i].margin[1] >= 0
                   /\ results[i].margin[1] <= results[i].margin[2]
            /\ results[i].strategy \in {"fast_accept", "agreement"} =>
                   results[i].margin = NoMargin

(* The fast-accept rule, stated on the Fast result of record i: the        *)
(* confidence of its label is at least CONF_FAST_ACCEPT (985/1000).        *)
FastConfident(i) ==
    /\ fast_results[i].label \in LabelSet
    /\ 1000 * fast_results[i].num[fast_results[i].label]
           >= 985 * fast_results[i].den

NotFastAccepted == {i \in 1..b_n : ~(FastConfident(i) /\ ~is_audit[i])}

(* C9: a record is decided fast_accept, with the Fast label, if and only   *)
(* if its Fast confidence reaches CONF_FAST_ACCEPT and it was not drawn    *)
(* for audit; Pro is called with exactly the other records of the batch,   *)
(* in batch order, and not at all when there is none.                      *)
C9_FastAcceptRule ==
    /\ bpc \in {"pro", "returned"} =>
          /\ \A i \in 1..b_n :
                /\ results[i].strategy = "fast_accept" <=> i \notin NotFastAccepted
                /\ results[i].strategy = "fast_accept" =>
                       results[i].final_label = fast_results[i].label
          /\ {need_pro_indices[k] : k \in 1..Len(need_pro_indices)} = NotFastAccepted
    /\ bpc = "returned" =>
          IF NotFastAccepted = {}
          THEN pro_comments = <<>>
          ELSE /\ Len(pro_comments) = 1
               /\ Len(pro_comments[1]) = Cardinality(NotFastAccepted)
               /\ \A k \in 1..Len(pro_comments[1]) :
                      /\ pro_comments[1][k] \in NotFastAccepted
                      /\ \A m \in 1..(k - 1) : pro_comments[1][m] < pro_comments[1][k]

(* C9 witness: a returned batch in which a confident record was audited    *)
(* and sent to Pro while another one was fast-accepted.                    *)
C9_Witness ==
    /\ bpc = "returned"
    /\ \E i, j \in 1..b_n :
          /\ FastConfident(i) /\ is_audit[i] /\ results[i].strategy # "fast_accept"
          /\ results[j].strategy = "fast_accept"
    /\ Len(pro_comments) = 1

(* A returned batch whose records were all fast-accepted: no Pro call.     *)
C9_WitnessNoPro ==
    bpc = "returned" /\ pro_comments = <<>> /\ b_n >= 2

----------------------------------------------------------------------------
(* Claims about the merge (specification MergeSpec).                       *)

(* The files that hold a row with the id, and the last of them.            *)
FilesWith(id) ==
    {f \in 1..Len(labeled_files) : PositionsOf(labeled_files[f], id) # {}}

(* C10: merge is last-writer-wins: for an id that appears in the labeled   *)
(* files, the label and score of its row in the final dataset are those of *)
(* a row of the last file (in the merge's file order) that holds the id.   *)
C10_LastWriterWins ==
    mpc = "done" =>
        \A k \in 1..Len(final_rows) :
            FilesWith(final_rows[k].comment_id) # {} =>
                \E r \in PositionsOf(
                             labeled_files[MaxOf(FilesWith(final_rows[k].comment_id))],
                             final_rows[k].comment_id) :
                    LET src == labeled_files[
                                   MaxOf(FilesWith(final_rows[k].comment_id))][r]
                    IN  /\ final_rows[k].sentiment_label = src.sentiment_label
                        /\ final_rows[k].sentiment_score = src.sentiment_score

(* The ids of the rows of a sequence of rows.                              *)
IdsOf(s) == {s[k].comment_id : k \in 1..Len(s)}

(* C11: the merged final dataset has at most one row per record id and no  *)
(* row whose id is absent from the original dataset, whatever ids repeat   *)
(* within or across the shard output files.                                *)
C11_OneRowPerId ==
    mpc = "done" =>
        /\ \A i, j \in 1..Len(final_rows) :
               i # j => final_rows[i].comment_id # final_rows[j].comment_id
        /\ IdsOf(final_rows) \subseteq IdsOf(main_rows)

(* C11 witness: a merge that wrote a row for an id that two files hold     *)
(* with different labels.                                                  *)
C11_Witness ==
    /\ mpc = "done"
    /\ Len(labeled_files) = 2
    /\ \E k \in 1..Len(final_rows) :
          \E a \in PositionsOf(labeled_files[1], final_rows[k].comment_id),
             b \in PositionsOf(labeled_files[2], final_rows[k].comment_id) :
              labeled_files[1][a].sentiment_label
                  # labeled_files[2][b].sentiment_label

(* C12: after merge no row of the final dataset is neutral with score 0.0, *)
(* and a row of the original dataset is missing from the final dataset     *)
(* only if its pair (from a shard output, or the default of an unmatched   *)
(* id) is neutral / 0.0.                                                   *)
C12_NeutralZeroDropped ==
    mpc = "done" =>
        /\ \A k \in 1..Len(final_rows) :
               ~(final_rows[k].sentiment_label = "neutral"
                     /\ final_rows[k].sentiment_score = 0)
        /\ \A m \in 1..Len(main_rows) :
               main_rows[m].comment_id \notin IdsOf(final_rows) =>
                   \/ \E f \in 1..Len(labeled_files) :
                          \E r \in PositionsOf(labeled_files[f],
                                               main_rows[m].comment_id) :
                              /\ labeled_files[f][r].sentiment_label = "neutral"
                              /\ labeled_files[f][r].sentiment_score = 0
                   \/ /\ FilesWith(main_rows[m].comment_id) = {}
                      /\ \/ ~main_rows[m].has
                         \/ /\ main_rows[m].sentiment_label = "neutral"
                            /\ main_rows[m].sentiment_score = 0

(* The final dataset the running merge makes of a listing of the files.    *)
MergeOutput(listing) ==
    IF merger = "merge_labeled_comments"
    THEN merge_labeled_comments(main_rows, listing)
    ELSE merge_labeled_files(main_rows, listing)

(* C13: merge is idempotent and independent of the enumeration order: a    *)
(* merge of the same original dataset and the same shard output files      *)
(* gives the same final dataset (rows, order, labels, scores) in whatever  *)
(* order the file system enumerates the files.                             *)
C13_MergeIdempotent ==
    mpc = "done" =>
        \A order \in Orders(Len(labeled_files)) :
            MergeOutput(Enumerated(labeled_files, order)) = final_rows

(* C13 witness: a merge of two files that disagree on an id of the         *)
(* original dataset, enumerated in reverse path order.                     *)
C13_Witness ==
    /\ mpc = "done"
    /\ Len(labeled_files) = 2
    /\ glob_order = <<2, 1>>
    /\ \E a \in 1..Len(labeled_files[1]), b \in 1..Len(labeled_files[2]) :
          /\ labeled_files[1][a].comment_id = labeled_files[2][b].comment_id
          /\ labeled_files[1][a].sentiment_label # labeled_files[2][b].sentiment_label
          /\ labeled_files[1][a].comment_id \in IdsOf(final_rows)

----------------------------------------------------------------------------
(* Claims about the retries of the client (specification ClientSpec).      *)

(* C14: call_model_batch makes at most MAX_RETRIES service calls for a     *)
(* batch; when the service fails on every attempt it does not raise but    *)
(* returns, after MAX_RETRIES calls, a list of exactly batch-length        *)
(* entries that are all labeled error.                                     *)
C14_RetriesThenErrors ==
    /\ service_calls <= MAX_RETRIES
    /\ cpc \in {"calling", "returned"}
    /\ cpc = "calling" => service_calls = attempt
    /\ (cpc = "returned" /\ c_response = ExceptionOutcome) =>
           /\ service_calls = MAX_RETRIES
           /\ Len(c_results) = c_n
           /\ \A i \in 1..c_n : c_results[i].label = "error"

(* C14 witness: the service failed on every attempt of a batch of several  *)
(* records and the client returned.                                        *)
C14_Witness ==
    /\ cpc = "returned"
    /\ c_response = ExceptionOutcome
    /\ service_calls = MAX_RETRIES
    /\ c_n >= 2
    /\ Len(c_results) = c_n

----------------------------------------------------------------------------
(* Claims about the orchestrator (specification OrchSpec).                 *)

(* The orchestrator is past its wait for the workers without having been   *)
(* interrupted.                                                            *)
WaitOver ==
    /\ ~interrupted
    /\ opc \in {"labeled", "done", "exit_no_success", "exit_merge_failed"}

(* C15: shard isolation: as long as no interrupt arrives, the orchestrator *)
(* terminates or cancels no worker, records an outcome only for a worker   *)
(* that has stopped and records the outcome that worker had, never twice;  *)
(* when its wait is over every launched worker has stopped and has exactly *)
(* one recorded outcome, whatever the other workers' outcomes were.        *)
C15_ShardIsolation ==
    ~interrupted =>
        /\ terminate_sent = {}
        /\ \A i \in 1..Len(processes) : processes[i] # "terminated"
        /\ Len(successful_outputs) + Len(failed_inputs) = Cardinality(Recorded)
        /\ \A k \in 1..Len(successful_outputs) :
               processes[successful_outputs[k]] = "exit0"
        /\ \A k \in 1..Len(failed_inputs) :
               processes[failed_inputs[k]] = "exit1"
        /\ WaitOver =>
               /\ Len(processes) = n_split
               /\ Recorded = 1..n_split
               /\ \A i \in 1..n_split : Stopped(i)

(* C15 witness: the wait is over for three workers of which the first      *)
(* failed and a later one succeeded.                                       *)
C15_Witness ==
    /\ WaitOver
    /\ n_split = 3
    /\ processes[1] = "exit1"
    /\ \E i \in 2..3 : processes[i] = "exit0"
    /\ Recorded = 1..3

(* C16: cancellation: an orchestrator that has exited after an interrupt   *)
(* has forwarded termination to every worker that was alive when the       *)
(* interrupt arrived, and none of those workers is still running.          *)
C16_CancellationForwarded ==
    (interrupted /\ opc \in {"exit_interrupt", "exit_uncaught"}) =>
        /\ alive_at_interrupt \subseteq terminate_sent
        /\ \A i \in alive_at_interrupt : Stopped(i)

(* C18: with more credentials than records (N > T >= 1) the orchestrated   *)
(* run clamps the shard count to T with a warning and goes on to label     *)
(* the T shards: it does not exit for a count mismatch.                    *)
C18_ClampProceeds ==
    (orchestrator \in PoolOrchestrators /\ api_keys > total_rows
         /\ opc # "split") =>
        /\ n_split = total_rows
        /\ warned
        /\ opc # "exit_mismatch"

(* C19: a shard failure never aborts the whole run: without an interrupt,  *)
(* a run in which workers failed does not exit before the merge, and when  *)
(* the run is done the final dataset holds the labels of every shard that  *)
(* completed successfully.                                                 *)
C19_FailureNeverAborts ==
    (orchestrator \in PoolOrchestrators /\ ~interrupted) =>
        /\ opc # "exit_no_success"
        /\ (opc = "done" /\ failed_inputs # <<>>) =>
               ShardsOf(successful_outputs) \subseteq merged_labels

----------------------------------------------------------------------------
(* Claims about the responses the client parses (specification ClientSpec). *)

(* C22: an unparsable response is retried: when the client has returned    *)
(* after the service answered text that cannot be decoded as JSON, it has  *)
(* made MAX_RETRIES calls for the batch.                                   *)
C22_UnparsableRetried ==
    (cpc = "returned" /\ c_response = UnparsableResponse) =>
        service_calls = MAX_RETRIES

(* The items of the response that the client looks at: the first c_n.      *)
SeenItems == SubSeq(c_response.items, 1, Min(c_n, Len(c_response.items)))

(* C23: in a parsed JSON response every item whose label is missing or is  *)
(* not one of positive / neutral / negative gives a result labeled error   *)
(* at its own position, and every other item keeps its own parsed label.   *)
C23_InvalidLabelIsLocal ==
    (cpc = "returned" /\ c_response.kind \in {"list", "object"}) =>
        \A k \in 1..Len(SeenItems) :
            LET item == SeenItems[k]
                valid == /\ item.dict
                         /\ ~item.raises
                         /\ NormalizeLabel(item.label) # "error"
            IN  IF valid
                THEN c_results[k].label = NormalizeLabel(item.label)
                ELSE c_results[k].label = "error"

(* C24: whatever the service did, the client returns exactly c_n results   *)
(* in the order of the records: result k is parsed from item k of the      *)
(* response, missing trailing items are error entries, surplus items are   *)
(* discarded, and a response that could not be used gives c_n errors.      *)
C24_ExactlyNResults ==
    cpc = "returned" =>
        /\ Len(c_results) = c_n
        /\ DOMAIN c_results = 1..c_n
        /\ IF /\ c_response.kind \in {"list", "object"}
              /\ \A k \in 1..Len(SeenItems) : ~SeenItems[k].raises
           THEN \A k \in 1..c_n :
                    IF k <= Len(c_response.items)
                    THEN c_results[k] = ParseItem(c_response.items[k])
                    ELSE c_results[k] = ThirdError
           ELSE \A k \in 1..c_n : c_results[k] = ThirdError

(* C24 witness: the service answered one item more than the batch holds    *)
(* and the client returned the labels of the first c_n items.              *)
C24_Witness ==
    /\ cpc = "returned"
    /\ c_n >= 2
    /\ c_response.kind = "list"
    /\ Len(c_response.items) = c_n + 1
    /\ Len(c_results) = c_n
    /\ c_results[1].label = "positive"
    /\ c_results[c_n].label = "negative"

(* A second case of C24: the service answered fewer items than the batch   *)
(* holds and the missing trailing result is an error entry.                *)
C24_WitnessTooFew ==
    /\ cpc = "returned"
    /\ c_n >= 2
    /\ c_response.kind = "list"
    /\ Len(c_response.items) = c_n - 1
    /\ c_results[1].label = "positive"
    /\ c_results[c_n] = ThirdError

----------------------------------------------------------------------------
(* Claims about the decisions of the records sent to Pro (specification    *)
(* BatchSpec).                                                             *)

(* The records of the batch that were sent to Pro and the Pro result of    *)
(* such a record.                                                          *)
SentToPro == {need_pro_indices[k] : k \in 1..Len(need_pro_indices)}
ProOf(i) == pro_results[PositionIn(need_pro_indices, i)]

(* The Fast and the Pro label of record i are equal and not error.         *)
Agree(i) ==
    /\ fast_results[i].label = ProOf(i).label
    /\ fast_results[i].label # "error"

(* C25: a record sent to Pro is decided {fast.label, agreement, no margin} *)
(* if and only if its Fast and Pro labels are equal and not error; every   *)
(* other record sent to Pro gets a soft-voting outcome (soft_voting or     *)
(* human_review, with a margin).                                           *)
C25_AgreementRule ==
    (bpc = "returned" /\ pro_results # <<>>) =>
        \A i \in SentToPro :
            /\ results[i].strategy = "agreement" <=> Agree(i)
            /\ Agree(i) =>
                   results[i] = Decision(fast_results[i].label, "agreement", NoMargin)
            /\ ~Agree(i) =>
                   /\ results[i].strategy \in {"soft_voting", "human_review"}
                   /\ results[i].margin # NoMargin

(* C25 witness: a confident Fast result was audited, Pro gave the same     *)
(* label and the record was decided by agreement, while another record of  *)
(* the batch went to soft voting.                                          *)
C25_Witness ==
    /\ bpc = "returned"
    /\ \E i, j \in SentToPro :
          /\ Agree(i) /\ is_audit[i] /\ results[i].strategy = "agreement"
          /\ ~Agree(j) /\ results[j].strategy \in {"soft_voting", "human_review"}

(* The score of a label for record i over the denominator VoteDen(i): the  *)
(* confidences of the tiers that are not error times the tier weights,     *)
(* divided by the sum of the weights of those tiers.                       *)
VoteWeight(i) ==
    (IF fast_results[i].label # "error" THEN WEIGHT_FAST ELSE 0)
        + (IF ProOf(i).label # "error" THEN WEIGHT_PRO ELSE 0)

(* The denominator a tier brings to the scores: 1 when it is not used.     *)
TierDen(res) == IF res.label # "error" THEN res.den ELSE 1

VoteDen(i) == TierDen(fast_results[i]) * TierDen(ProOf(i)) * VoteWeight(i)

VoteNum(i, l) ==
    (IF fast_results[i].label # "error"
         THEN fast_results[i].num[l] * WEIGHT_FAST * TierDen(ProOf(i)) ELSE 0)
        + (IF ProOf(i).label # "error"
               THEN ProOf(i).num[l] * WEIGHT_PRO * TierDen(fast_results[i]) ELSE 0)

(* The labels with the highest score and the margin between the highest    *)
(* and the second-highest score (0 when two labels share the highest).     *)
TopLabels(i) == {l \in LabelSet : \A m \in LabelSet : VoteNum(i, l) >= VoteNum(i, m)}

VoteMargin(i) ==
    LET top == CHOOSE l \in TopLabels(i) : TRUE
        second == CHOOSE l \in LabelSet \ {top} :
                      \A m \in LabelSet \ {top} : VoteNum(i, l) >= VoteNum(i, m)
    IN  VoteNum(i, top) - VoteNum(i, second)

(* C26: a record sent to Pro without agreement, with at least one tier     *)
(* that is not error, is decided soft_voting exactly when the margin of    *)
(* its scores is at least MARGIN_THRESHOLD (1/5); then final_label is the  *)
(* label whose score is strictly above every other; otherwise the decision *)
(* is human_review with final_label None.  The margin is recorded.         *)
C26_SoftVotingRule ==
    (bpc = "returned" /\ pro_results # <<>>) =>
        \A i \in SentToPro :
            (~Agree(i) /\ VoteWeight(i) > 0) =>
                /\ results[i].margin = <<VoteMargin(i), VoteDen(i)>>
                /\ results[i].strategy = "soft_voting" <=>
                       5 * VoteMargin(i) >= VoteDen(i)
                /\ results[i].strategy = "soft_voting" =>
                       /\ TopLabels(i) = {results[i].final_label}
                       /\ \A m \in LabelSet \ {results[i].final_label} :
                              VoteNum(i, results[i].final_label) > VoteNum(i, m)
                /\ results[i].strategy # "soft_voting" =>
                       /\ results[i].strategy = "human_review"
                       /\ results[i].final_label = None

(* C26 witness: one record of the batch was decided soft_voting against    *)
(* its Fast label and another one, with a positive margin below the        *)
(* threshold, went to human_review.                                        *)
C26_Witness ==
    /\ bpc = "returned"
    /\ \E i, j \in SentToPro :
          /\ ~Agree(i) /\ VoteWeight(i) = WEIGHT_FAST + WEIGHT_PRO
          /\ results[i].strategy = "soft_voting"
          /\ results[i].final_label # fast_results[i].label
          /\ ~Agree(j) /\ VoteWeight(j) > 0
          /\ VoteMargin(j) > 0
          /\ results[j].strategy = "human_review"

(* C27: a record whose Fast and Pro results are both error is decided      *)
(* human_review with final_label None: a Fast error is never fast-accepted *)
(* and always sent to Pro, and two errors are neither an agreement nor a   *)
(* soft_voting label.                                                      *)
C27_BothErrorHumanReview ==
    /\ bpc \in {"pro", "returned"} =>
          \A i \in 1..b_n :
              fast_results[i].label = "error" =>
                  /\ i \in SentToPro
                  /\ results[i].strategy # "fast_accept"
    /\ (bpc = "returned" /\ pro_results # <<>>) =>
          \A i \in SentToPro :
              (fast_results[i].label = "error" /\ ProOf(i).label = "error") =>
                  /\ results[i].strategy = "human_review"
                  /\ results[i].final_label = None

(* C27 witness: both tier calls failed on every retry for a batch of       *)
(* several records, and every record went to human_review.                 *)
C27_Witness ==
    /\ bpc = "returned"
    /\ b_n >= 2
    /\ fast_results = AllErrors(b_n)
    /\ pro_results = AllErrors(b_n)
    /\ \A i \in 1..b_n : results[i] # Placeholder
    /\ \A i \in 1..b_n : results[i].strategy = "human_review"

----------------------------------------------------------------------------
(* Claims about the order of the batches and about resumed runs of the     *)
(* shard worker (specifications Spec and PartSpec).                        *)

(* The rows of the batches the running worker has gone through: batch b    *)
(* of a run covers the BATCH_SIZE rows from start_idx + b * BATCH_SIZE,    *)
(* cut at the end of the shard.                                            *)
RowsOfBatches(count) ==
    start_idx .. (Min(start_idx + count * BATCH_SIZE, shardLen) - 1)

C29_OutputCompleteAfterResume ==
    (pc = "done" /\ killedAfterWrite) =>
        outputFile = CsvFile(0 .. (shardLen - 1))

(* C30: the checkpoint from which a run takes its resume index was written *)
(* by a run over the same input file.                                      *)
C30_CheckpointOfSameInput ==
    resumedFor \in {NoInput, input_file}

----------------------------------------------------------------------------
(* Claims about the rows the merge filter removes (specification           *)
(* LabelSpec).                                                             *)

(* C28: every row of the part that is missing from the final dataset had a *)
(* blank text and was never sent to the service: a row with a text is in   *)
(* the final dataset whatever the service did.                             *)
C28_OnlyBlankRowsRemoved ==
    lpc = "done" =>
        \A i \in 1..Len(l_texts) :
            i \notin IdsOf(l_final) =>
                /\ l_texts[i] = "blank"
                /\ i \notin l_sent

====
